---- MODULE Spec2Model ----
(***************************************************************************)
(* Model of the Cedar authorization agent (src/src/main.rs).               *)
(*                                                                         *)
(* main loads the policy set and the optional schema once                  *)
(* (CedarService::new), parses the bind address, binds and then serves.    *)
(* Every inbound request is handled by handle_request, which routes on     *)
(* (method, path); POST /authorize awaits the body, decodes it with serde, *)
(* and calls CedarService::authorize.                                      *)
(*                                                                         *)
(* The cedar_policy crate, serde_json and hyper are external libraries:    *)
(* their calls are modelled by what their documented contract returns on   *)
(* a small alphabet of inputs (a parsable / unparsable identifier, entity  *)
(* JSON that is valid only without a schema, ...).                         *)
(***************************************************************************)
EXTENDS Naturals, Sequences, FiniteSets

\* Number of requests that can be in flight / observed at the same time.
NumReq == 2

Slots == 1..NumReq

(***************************************************************************)
(* Environment: files on disk and the BIND_ADDR variable                   *)
(***************************************************************************)

\* Contents of the policy file: unreadable, unparsable, or one of three
\* parsable policy sources.
PolicyFiles == {"unreadable", "invalid", "empty", "permits", "forbids"}

\* Contents of the schema file: unreadable (absent), unparsable, parsable.
SchemaFiles == {"unreadable", "invalid", "valid"}

\* BIND_ADDR: a socket address, or a string that is not one.
BindAddrs == {"0.0.0.0:8181", "localhost"}

VARIABLES
    policy_file,    \* what fs::read_to_string(policy_path) finds
    schema_file,    \* what fs::read_to_string(schema_path) finds
    bind_addr,      \* value of BIND_ADDR
    port_free,      \* whether the listener can be bound
    main_pc,        \* position of main: "load", "bind", "serving", "exited"
    service,        \* the Arc<CedarService>, or NoService before/without it
    load_result,    \* result of CedarService::new: "pending", "ok" or an error
    conn            \* per in-flight request: the handle_request future

vars == <<policy_file, schema_file, bind_addr, port_free, main_pc, service,
          load_result, conn>>

env == <<policy_file, schema_file, bind_addr, port_free>>

(***************************************************************************)
(* CedarService::new                                                       *)
(***************************************************************************)

NoService == [loaded |-> FALSE, policy_set |-> <<>>, schema |-> "None"]

\* fs::read_to_string: Ok iff the file can be read.
read_to_string(file) == file # "unreadable"

\* A policy of the engine: its id, its effect and the condition it tests.
\*   "action_view": scope `action == Action::"view"`, never errors
\*   "has_owner"  : `when { resource.owner == principal }`, which errors when
\*                  the resource entity has no `owner` attribute
\*   "always"     : no condition
Policy(id, effect, cond) == [id |-> id, effect |-> effect, cond |-> cond]

\* policy_src.parse::<PolicySet>(): the policies of a parsable source, in
\* source order (an empty source parses to the empty policy set).
ParsePolicySet(file) ==
    CASE file = "empty"   -> <<>>
      [] file = "permits" -> << Policy(0, "permit", "action_view"),
                                Policy(1, "permit", "has_owner") >>
      [] file = "forbids" -> << Policy(0, "permit", "always"),
                                Policy(1, "forbid", "has_owner") >>

PolicyParses(file) == file \in {"empty", "permits", "forbids"}

\* Schema::from_json_str
SchemaParses(file) == file = "valid"

\* A loader that treats an unparsable schema like an absent one.
NewResult_IgnoreSchemaError(pfile, sfile) ==
    IF ~read_to_string(pfile)
      THEN [ok |-> FALSE, err |-> "Failed to read policy file", svc |-> NoService]
    ELSE IF ~PolicyParses(pfile)
      THEN [ok |-> FALSE, err |-> "Failed to parse policies", svc |-> NoService]
    ELSE [ok |-> TRUE, err |-> "",
          svc |-> [loaded |-> TRUE,
                   policy_set |-> ParsePolicySet(pfile),
                   schema |-> IF read_to_string(sfile) /\ SchemaParses(sfile)
                                THEN "Some" ELSE "None"]]

\* CedarService::new(policy_path, schema_path): Ok(service) or Err(message).
\* The `?` operators return at the first failing step.
NewResult(pfile, sfile) ==
    IF ~read_to_string(pfile)
      THEN [ok |-> FALSE, err |-> "Failed to read policy file", svc |-> NoService]
    ELSE IF ~PolicyParses(pfile)
      THEN [ok |-> FALSE, err |-> "Failed to parse policies", svc |-> NoService]
    ELSE IF read_to_string(sfile)
      THEN IF SchemaParses(sfile)
             THEN [ok |-> TRUE, err |-> "",
                   svc |-> [loaded |-> TRUE,
                            policy_set |-> ParsePolicySet(pfile),
                            schema |-> "Some"]]
             ELSE [ok |-> FALSE, err |-> "Failed to parse schema",
                   svc |-> NoService]
      ELSE [ok |-> TRUE, err |-> "",
            svc |-> [loaded |-> TRUE,
                     policy_set |-> ParsePolicySet(pfile),
                     schema |-> "None"]]

(***************************************************************************)
(* Requests                                                                *)
(***************************************************************************)

Methods == {"GET", "POST", "PUT"}
Paths == {"/health", "/authorize", "/unknown"}

\* JSON values of the three string fields: absent, a JSON number, a string
\* that parses as an entity uid, a string that does not.
PrincipalOk == "User::\"alice\""
PrincipalBad == "alice"
ActionOk == "Action::\"view\""
ActionOff == "Action::\"purge\""     \* a well-formed uid the schema does not declare
ActionBad == "view"
ResourceOk == "Doc::\"d1\""
ResourceBad == "d1"

\* JSON values of `entities`: absent, entity records with every attribute,
\* entity records without the `owner` attribute the schema requires, and a
\* JSON value that is not a list of entity records.
EntitiesComplete == "complete"
EntitiesPartial == "partial"
EntitiesGarbage == "garbage"

Body(kind, p, a, r, e) ==
    [kind |-> kind, principal |-> p, action |-> a, resource |-> r, entities |-> e]

\* Body of a request whose route never looks at it.
EmptyBody == Body("empty", "missing", "missing", "missing", "missing")
\* A body stream that fails before it is complete.
BrokenBody == Body("stream_error", "missing", "missing", "missing", "missing")
\* Bytes that are not JSON.
NotJsonBody == Body("not_json", "missing", "missing", "missing", "missing")

GoodBody == Body("json", PrincipalOk, ActionOk, ResourceOk, EntitiesComplete)

\* JSON objects with exactly one field absent or of the wrong type.
UndecodableBodies ==
    { [GoodBody EXCEPT ![f] = "missing"] :
          f \in {"principal", "action", "resource", "entities"} }
    \cup { [GoodBody EXCEPT ![f] = "number"] :
          f \in {"principal", "action", "resource"} }

\* JSON objects with four fields of the right type: every combination of
\* acceptable / unacceptable values, and the values only a schema rejects.
DecodableBodies ==
    { Body("json", p, a, r, e) :
          p \in {PrincipalOk, PrincipalBad}, a \in {ActionOk, ActionBad},
          r \in {ResourceOk, ResourceBad},
          e \in {EntitiesComplete, EntitiesGarbage} }
    \cup { Body("json", PrincipalOk, a, ResourceOk, e) :
          a \in {ActionOk, ActionOff},
          e \in {EntitiesComplete, EntitiesPartial} }

AuthorizeBodies ==
    {BrokenBody, NotJsonBody} \cup UndecodableBodies \cup DecodableBodies

(***************************************************************************)
(* Request Decoder: serde_json::from_slice::<AuthzRequest>                 *)
(***************************************************************************)

StringFields == <<"principal", "action", "resource">>
RequiredFields == <<"principal", "action", "resource", "entities">>

\* A decoder that defaults an absent `entities` instead of rejecting it.
from_slice_DefaultEntities(body) ==
    IF body.kind # "json"
      THEN [ok |-> FALSE, err |-> "expected value", req |-> EmptyBody]
    ELSE IF \E k \in 1..3 : body[StringFields[k]] = "number"
      THEN [ok |-> FALSE, err |-> "invalid type: integer, expected a string",
            req |-> EmptyBody]
    ELSE IF \E k \in 1..3 : body[StringFields[k]] = "missing"
      THEN [ok |-> FALSE, err |-> "missing field", req |-> EmptyBody]
    ELSE [ok |-> TRUE, err |-> "", req |-> body]

\* The derived Deserialize of AuthzRequest: a string field holding another
\* JSON type is an "invalid type" error, an absent field a "missing field"
\* error (entities is a serde_json::Value: any JSON value is accepted, but the
\* key must be there); anything that is not JSON is a syntax error.
from_slice(body) ==
    IF body.kind # "json"
      THEN [ok |-> FALSE, err |-> "expected value", req |-> EmptyBody]
    ELSE IF \E k \in 1..3 : body[StringFields[k]] = "number"
      THEN [ok |-> FALSE, err |-> "invalid type: integer, expected a string",
            req |-> EmptyBody]
    ELSE IF \E k \in 1..4 : body[RequiredFields[k]] = "missing"
      THEN [ok |-> FALSE, err |-> "missing field", req |-> EmptyBody]
    ELSE [ok |-> TRUE, err |-> "", req |-> body]

(***************************************************************************)
(* cedar_policy calls made by CedarService::authorize                      *)
(***************************************************************************)

NoUid == [type |-> "", id |-> ""]

\* str::parse::<EntityUid>(): `Type::"id"` parses to an entity uid, a bare
\* word does not.
ParseEntityUid(str) ==
    CASE str = PrincipalOk -> [ok |-> TRUE, uid |-> [type |-> "User", id |-> "alice"]]
      [] str = ActionOk    -> [ok |-> TRUE, uid |-> [type |-> "Action", id |-> "view"]]
      [] str = ActionOff   -> [ok |-> TRUE, uid |-> [type |-> "Action", id |-> "purge"]]
      [] str = ResourceOk  -> [ok |-> TRUE, uid |-> [type |-> "Doc", id |-> "d1"]]
      [] OTHER             -> [ok |-> FALSE, uid |-> NoUid]

\* Entities::from_json_value(value, schema): the entity graph, or an error.
\* With a schema the entities are checked against it.
EntitiesFromJson(value, schema) ==
    IF value = EntitiesComplete
      THEN [ok |-> TRUE, graph |-> [owner |-> TRUE]]
    ELSE IF value = EntitiesPartial /\ schema = "None"
      THEN [ok |-> TRUE, graph |-> [owner |-> FALSE]]
    ELSE [ok |-> FALSE, graph |-> [owner |-> FALSE]]

\* Request::new(principal, action, resource, context, schema): with a schema
\* the request is validated against it (the action must be declared).
RequestNew(principal, action, resource, schema) ==
    IF schema = "Some" /\ action.id # "view"
      THEN [ok |-> FALSE,
            request |-> [principal |-> NoUid, action |-> NoUid, resource |-> NoUid]]
      ELSE [ok |-> TRUE,
            request |-> [principal |-> principal, action |-> action,
                         resource |-> resource]]

\* Evaluation of one policy on a request.
EvalPolicy(policy, request, entities) ==
    CASE policy.cond = "always"      -> "satisfied"
      [] policy.cond = "action_view" ->
            IF request.action.id = "view" THEN "satisfied" ELSE "unsatisfied"
      [] policy.cond = "has_owner"   ->
            IF entities.owner THEN "satisfied" ELSE "error"

\* The ids of the policies of `policy_set` with the given effect and
\* evaluation outcome, in policy-set order.
PolicyIds(policy_set, effects, outcome, request, entities) ==
    LET Sel(p) == p.effect \in effects
                  /\ EvalPolicy(p, request, entities) = outcome
        sel == SelectSeq(policy_set, Sel)
    IN  [k \in 1..Len(sel) |-> sel[k].id]

\* Authorizer::is_authorized(request, policy_set, entities): a satisfied
\* forbid denies, otherwise a satisfied permit allows, otherwise deny; a
\* policy whose evaluation errors is skipped and reported in errors.
is_authorized(request, policy_set, entities) ==
    LET permits == PolicyIds(policy_set, {"permit"}, "satisfied", request, entities)
        forbids == PolicyIds(policy_set, {"forbid"}, "satisfied", request, entities)
        errs    == PolicyIds(policy_set, {"permit", "forbid"}, "error", request, entities)
    IN  IF forbids # <<>>
          THEN [decision |-> "DecisionDeny", reason |-> forbids, errors |-> errs]
        ELSE IF permits # <<>>
          THEN [decision |-> "DecisionAllow", reason |-> permits, errors |-> errs]
        ELSE [decision |-> "DecisionDeny", reason |-> <<>>, errors |-> errs]

\* PolicyId::to_string
PolicyIdToString(id) ==
    CASE id = 0 -> "policy0" [] id = 1 -> "policy1" [] OTHER -> "policy?"

\* AuthorizationError::to_string
ErrorToString(id) ==
    CASE id = 0 -> "error while evaluating policy policy0"
      [] id = 1 -> "error while evaluating policy policy1"
      [] OTHER  -> "error while evaluating policy"

(***************************************************************************)
(* CedarService::authorize                                                 *)
(***************************************************************************)

NoEngineResponse == [decision |-> "", reason |-> <<>>, errors |-> <<>>]

NoAuthzResponse == [decision |-> "", diagnostics |-> [reason |-> <<>>, errors |-> <<>>]]

\* Response Assembler (main.rs 102-128): the decision as a string and the
\* diagnostics mapped to strings, element by element.
Assemble(response) ==
    [decision |-> IF response.decision = "DecisionAllow" THEN "Allow" ELSE "Deny",
     diagnostics |->
        [reason |-> [k \in 1..Len(response.reason) |->
                        PolicyIdToString(response.reason[k])],
         errors |-> [k \in 1..Len(response.errors) |->
                        ErrorToString(response.errors[k])]]]

AuthErr(msg, stages) ==
    [ok |-> FALSE, err |-> msg, response |-> NoAuthzResponse,
     stages |-> stages, engine_calls |-> 0, engine |-> NoEngineResponse]

NoRequest == [principal |-> NoUid, action |-> NoUid, resource |-> NoUid]

BuildErr(msg, stages) ==
    [ok |-> FALSE, err |-> msg, stages |-> stages, request |-> NoRequest,
     entities |-> [owner |-> FALSE]]

\* A builder that parses the identifiers before the entities.
BuildContext_IdentifiersFirst(self, req) ==
    LET entities  == EntitiesFromJson(req.entities, self.schema)
        principal == ParseEntityUid(req.principal)
        action    == ParseEntityUid(req.action)
        resource  == ParseEntityUid(req.resource)
        cedar_request == RequestNew(principal.uid, action.uid, resource.uid,
                                    self.schema)
    IN  IF ~principal.ok
          THEN BuildErr("Failed to parse principal", <<"principal">>)
        ELSE IF ~action.ok
          THEN BuildErr("Failed to parse action", <<"principal", "action">>)
        ELSE IF ~resource.ok
          THEN BuildErr("Failed to parse resource",
                        <<"principal", "action", "resource">>)
        ELSE IF ~entities.ok
          THEN BuildErr("Failed to parse entities",
                        <<"principal", "action", "resource", "entities">>)
        ELSE IF ~cedar_request.ok
          THEN BuildErr("Failed to create request",
                        <<"principal", "action", "resource", "entities", "request">>)
        ELSE [ok |-> TRUE, err |-> "",
              stages |-> <<"principal", "action", "resource", "entities", "request">>,
              request |-> cedar_request.request, entities |-> entities.graph]

\* Evaluation Context Builder (main.rs 69-96): entities, principal, action,
\* resource, request, each `?` returning at the first failure.  `stages`
\* lists the steps that were evaluated.
BuildContext(self, req) ==
    LET entities  == EntitiesFromJson(req.entities, self.schema)
        principal == ParseEntityUid(req.principal)
        action    == ParseEntityUid(req.action)
        resource  == ParseEntityUid(req.resource)
        cedar_request == RequestNew(principal.uid, action.uid, resource.uid,
                                    self.schema)
    IN  IF ~entities.ok
          THEN BuildErr("Failed to parse entities", <<"entities">>)
        ELSE IF ~principal.ok
          THEN BuildErr("Failed to parse principal", <<"entities", "principal">>)
        ELSE IF ~action.ok
          THEN BuildErr("Failed to parse action",
                        <<"entities", "principal", "action">>)
        ELSE IF ~resource.ok
          THEN BuildErr("Failed to parse resource",
                        <<"entities", "principal", "action", "resource">>)
        ELSE IF ~cedar_request.ok
          THEN BuildErr("Failed to create request",
                        <<"entities", "principal", "action", "resource", "request">>)
        ELSE [ok |-> TRUE, err |-> "",
              stages |-> <<"entities", "principal", "action", "resource", "request">>,
              request |-> cedar_request.request, entities |-> entities.graph]

\* An authorize that calls the engine again when it reported errors.
authorize_Retry(self, req) ==
    LET ctx      == BuildContext(self, req)
        response == is_authorized(ctx.request, self.policy_set, ctx.entities)
    IN  IF ~ctx.ok
          THEN AuthErr(ctx.err, ctx.stages)
          ELSE [ok |-> TRUE, err |-> "", response |-> Assemble(response),
                stages |-> Append(ctx.stages, "is_authorized"),
                engine_calls |-> IF response.errors # <<>> THEN 2 ELSE 1,
                engine |-> response]

\* self.authorize(req): Ok(AuthzResponse) or Err(message).  `engine_calls`
\* counts the is_authorized calls, `engine` is what is_authorized returned.
authorize(self, req) ==
    LET ctx      == BuildContext(self, req)
        response == is_authorized(ctx.request, self.policy_set, ctx.entities)
    IN  IF ~ctx.ok
          THEN AuthErr(ctx.err, ctx.stages)
          ELSE [ok |-> TRUE, err |-> "", response |-> Assemble(response),
                stages |-> Append(ctx.stages, "is_authorized"),
                engine_calls |-> 1, engine |-> response]

(***************************************************************************)
(* handle_request                                                          *)
(***************************************************************************)

\* Response::builder(): status 200 unless .status() is called, no
\* content-type unless .header() is called.
Response(status, content_type, kind, text, authz) ==
    [status |-> status, content_type |-> content_type,
     body |-> [kind |-> kind, text |-> text, authz |-> authz]]

NoResponse == Response(0, "", "none", "", NoAuthzResponse)

\* serde_json::to_string(&HealthResponse { status })
HealthJson(status) == "{\"status\":\"" \o status \o "\"}"

\* format!(r#"{{"error":"{}"}}"#, e)
ErrorJson(msg) == "{\"error\":\"" \o msg \o "\"}"

\* A router that looks at the path only.
Route_PathOnly(method, path) ==
    IF path = "/health" THEN "health"
    ELSE IF path = "/authorize" THEN "authorize"
    ELSE "not_found"

\* The match on (req.method(), req.uri().path()).
Route(method, path) ==
    IF method = "GET" /\ path = "/health" THEN "health"
    ELSE IF method = "POST" /\ path = "/authorize" THEN "authorize"
    ELSE "not_found"

\* The state of one handle_request future.
\*   pc           "idle" (no request), "reading" (awaiting to_bytes), "done"
\*   resp         the Response it returned
\*   responses    how many responses it returned
\*   body_read    whether hyper::body::to_bytes was called
\*   decoded      whether from_slice returned Ok
\*   stages       the steps of authorize that were evaluated
\*   engine_calls how many times is_authorized was called
\*   engine       what is_authorized returned
Conn(pc, method, path, body) ==
    [pc |-> pc, method |-> method, path |-> path, body |-> body,
     resp |-> NoResponse, responses |-> 0, body_read |-> FALSE,
     decoded |-> FALSE, stages |-> <<>>, engine_calls |-> 0,
     engine |-> NoEngineResponse]

IdleConn == Conn("idle", "", "", EmptyBody)

Done(c, resp) == [c EXCEPT !.pc = "done", !.resp = resp, !.responses = @ + 1]

\* A health arm that reports 503 while no policy is loaded.
HealthArm_NeedsPolicies(c) ==
    IF service.policy_set = <<>>
      THEN Done(c, Response(503, "application/json", "json",
                            HealthJson("unhealthy"), NoAuthzResponse))
      ELSE Done(c, Response(200, "application/json", "json",
                            HealthJson("healthy"), NoAuthzResponse))

\* main.rs 137-146: (&Method::GET, "/health")
HealthArm(c) ==
    Done(c, Response(200, "application/json", "json", HealthJson("healthy"),
                     NoAuthzResponse))

\* main.rs 189-192: the `_` arm
NotFoundArm(c) ==
    Done(c, Response(404, "", "text", "Not found", NoAuthzResponse))

\* A handler that awaits the body again after a stream error.
BodyErrorArm_Retry(c) == [c EXCEPT !.body_read = TRUE]

\* main.rs 149-158: the body stream failed
BodyErrorArm(c) ==
    Done([c EXCEPT !.body_read = TRUE],
         Response(400, "", "json", ErrorJson("Failed to read body: " \o "stream error"),
                  NoAuthzResponse))

\* A handler that answers 500 when the diagnostics carry errors.
AuthorizeResponse_ErrorsAre500(result) ==
    IF result.ok /\ result.response.diagnostics.errors = <<>>
      THEN Response(200, "application/json", "json", "", result.response)
      ELSE Response(500, "application/json", "json", ErrorJson(result.err),
                    NoAuthzResponse)

\* main.rs 161-177: the response for the result of service.authorize
AuthorizeResponse(result) ==
    IF result.ok
      THEN Response(200, "application/json", "json", "", result.response)
      ELSE Response(500, "application/json", "json", ErrorJson(result.err),
                    NoAuthzResponse)

\* main.rs 178-185: the response for a serde error
ParseErrorResponse(err) ==
    Response(400, "application/json", "json",
             ErrorJson("Invalid request: " \o err), NoAuthzResponse)

\* A handler that decodes a buffer shared by all connections.
DecodeArm_SharedBuffer(c, self) ==
    LET parsed == from_slice(conn[1].body)
        result == authorize(self, parsed.req)
    IN  IF ~parsed.ok
          THEN Done([c EXCEPT !.body_read = TRUE], ParseErrorResponse(parsed.err))
          ELSE Done([c EXCEPT !.body_read = TRUE, !.decoded = TRUE,
                              !.stages = result.stages,
                              !.engine_calls = result.engine_calls,
                              !.engine = result.engine],
                    AuthorizeResponse(result))

\* main.rs 160-186: decode the bytes, authorize, build the response
DecodeArm(c, self) ==
    LET parsed == from_slice(c.body)
        result == authorize(self, parsed.req)
    IN  IF ~parsed.ok
          THEN Done([c EXCEPT !.body_read = TRUE], ParseErrorResponse(parsed.err))
          ELSE Done([c EXCEPT !.body_read = TRUE, !.decoded = TRUE,
                              !.stages = result.stages,
                              !.engine_calls = result.engine_calls,
                              !.engine = result.engine],
                    AuthorizeResponse(result))

\* handle_request up to its first await: the health and the `_` arm return
\* at once, the authorize arm awaits hyper::body::to_bytes.
handle_request(c) ==
    CASE Route(c.method, c.path) = "health"    -> HealthArm(c)
      [] Route(c.method, c.path) = "authorize" -> [c EXCEPT !.pc = "reading"]
      [] OTHER                                 -> NotFoundArm(c)

(***************************************************************************)
(* State machine                                                           *)
(***************************************************************************)

\* str::parse::<SocketAddr>()
SocketAddrParses(addr) == addr = "0.0.0.0:8181"

Init ==
    /\ policy_file \in PolicyFiles
    /\ schema_file \in SchemaFiles
    /\ bind_addr \in BindAddrs
    /\ port_free \in BOOLEAN
    /\ main_pc = "load"
    /\ service = NoService
    /\ load_result = "pending"
    /\ conn = [i \in Slots |-> IdleConn]

\* main.rs 205: CedarService::new(...)?
Load ==
    /\ main_pc = "load"
    /\ LET r == NewResult(policy_file, schema_file)
       IN  /\ service' = r.svc
           /\ load_result' = IF r.ok THEN "ok" ELSE r.err
           /\ main_pc' = IF r.ok THEN "bind" ELSE "exited"
    /\ UNCHANGED <<env, conn>>

\* main.rs 207-221: parse the address (`?`), bind (panics if the listener
\* cannot be bound) and serve.
Bind ==
    /\ main_pc = "bind"
    /\ main_pc' = IF ~SocketAddrParses(bind_addr) THEN "exited"
                  ELSE IF ~port_free THEN "panicked"
                  ELSE "serving"
    /\ UNCHANGED <<env, service, load_result, conn>>

\* (method, path) pairs other than GET /health and POST /authorize.
OtherRequests ==
    { <<"POST", "/health">>, <<"PUT", "/health">>,
      <<"GET", "/authorize">>, <<"PUT", "/authorize">>,
      <<"GET", "/unknown">>, <<"POST", "/unknown">>, <<"PUT", "/unknown">> }

\* A GET /health request arrives; handle_request runs to its first await.
Health(i) ==
    /\ main_pc = "serving"
    /\ conn[i].pc = "idle"
    /\ conn' = [conn EXCEPT ![i] =
                   handle_request(Conn("idle", "GET", "/health", EmptyBody))]
    /\ UNCHANGED <<env, main_pc, service, load_result>>

\* A request for another (method, path) than the two routes arrives.
NotFound(i) ==
    /\ main_pc = "serving"
    /\ conn[i].pc = "idle"
    /\ \E mp \in OtherRequests :
          conn' = [conn EXCEPT ![i] =
                      handle_request(Conn("idle", mp[1], mp[2], EmptyBody))]
    /\ UNCHANGED <<env, main_pc, service, load_result>>

\* A POST /authorize request arrives.
AuthorizeFrom(i, bodies) ==
    /\ main_pc = "serving"
    /\ conn[i].pc = "idle"
    /\ \E b \in bodies :
          conn' = [conn EXCEPT ![i] =
                      handle_request(Conn("idle", "POST", "/authorize", b))]
    /\ UNCHANGED <<env, main_pc, service, load_result>>

Authorize(i) == AuthorizeFrom(i, AuthorizeBodies)

\* to_bytes resolves with an error.
BodyError(i) ==
    /\ conn[i].pc = "reading"
    /\ conn[i].body.kind = "stream_error"
    /\ conn' = [conn EXCEPT ![i] = BodyErrorArm(conn[i])]
    /\ UNCHANGED <<env, main_pc, service, load_result>>

\* to_bytes resolves with the bytes; the rest of the handler runs.
BodyReady(i) ==
    /\ conn[i].pc = "reading"
    /\ conn[i].body.kind # "stream_error"
    /\ conn' = [conn EXCEPT ![i] = DecodeArm(conn[i], service)]
    /\ UNCHANGED <<env, main_pc, service, load_result>>

\* The response has been written; the slot takes the next request.
Release(i) ==
    /\ conn[i].pc = "done"
    /\ conn' = [conn EXCEPT ![i] = IdleConn]
    /\ UNCHANGED <<env, main_pc, service, load_result>>

Next ==
    \/ Load
    \/ Bind
    \/ \E i \in Slots : Health(i)
    \/ \E i \in Slots : NotFound(i)
    \/ \E i \in Slots : Authorize(i)
    \/ \E i \in Slots : BodyError(i)
    \/ \E i \in Slots : BodyReady(i)
    \/ \E i \in Slots : Release(i)

Spec == Init /\ [][Next]_vars

(***************************************************************************)
(* Properties                                                              *)
(***************************************************************************)

IsAuthorize(c) == c.method = "POST" /\ c.path = "/authorize"

\* The body is JSON holding the four required fields with the right types.
Decodable(b) ==
    /\ b.kind = "json"
    /\ \A f \in {"principal", "action", "resource", "entities"} :
          b[f] \notin {"missing", "number"}

\* The first input, in the order entities, principal, action, resource,
\* request, that the evaluation context cannot be built from ("none" when
\* it can be built).
FirstInvalid(b, schema) ==
    IF b.entities = EntitiesGarbage \/ (schema = "Some" /\ b.entities = EntitiesPartial)
      THEN "entities"
    ELSE IF b.principal = PrincipalBad THEN "principal"
    ELSE IF b.action = ActionBad THEN "action"
    ELSE IF b.resource = ResourceBad THEN "resource"
    ELSE IF schema = "Some" /\ b.action = ActionOff THEN "request"
    ELSE "none"

\* The request was decoded and its evaluation context could not be built.
BuildFailed(c) ==
    /\ c.pc = "done"
    /\ IsAuthorize(c)
    /\ c.body_read
    /\ Decodable(c.body)
    /\ FirstInvalid(c.body, service.schema) # "none"

\* C1: a POST /authorize request whose body decodes but whose evaluation
\* context cannot be built is answered 400 with a JSON error envelope, never
\* 500.
C1_BuildFailureIs400 ==
    \A i \in Slots :
        BuildFailed(conn[i]) =>
            /\ conn[i].resp.status = 400
            /\ conn[i].resp.content_type = "application/json"

\* C2: a POST /authorize request whose body is not JSON, or lacks one of
\* the four required fields, or has a field of the wrong type, is answered
\* 400 with a non-empty error message; authorize and the engine are not
\* reached and the server keeps serving.
C2_UndecodableIs400 ==
    \A i \in Slots :
        (/\ conn[i].pc = "done"
         /\ IsAuthorize(conn[i])
         /\ conn[i].body.kind # "stream_error"
         /\ ~Decodable(conn[i].body))
        => /\ conn[i].resp.status = 400
           /\ Len(conn[i].resp.body.text) > Len(ErrorJson(""))
           /\ conn[i].stages = <<>>
           /\ conn[i].engine_calls = 0
           /\ main_pc = "serving"

C2_Witness ==
    \E i \in Slots :
        /\ conn[i].pc = "done"
        /\ conn[i].body = [GoodBody EXCEPT !.entities = "missing"]
        /\ conn[i].resp.status = 400

(***************************************************************************)
(* Fair specification for the liveness of request handling.  The tokio     *)
(* runtime polls a handle_request future again once its body stream has    *)
(* resolved, so the continuation of a reading handler is weakly fair.      *)
(* Arrivals and releases are the environment's and are not fair.  The      *)
(* bodies are one per stage the pipeline can stop at: body read, decode,   *)
(* identifier parsing, request construction, and none.                     *)
(***************************************************************************)

StageBodies ==
    { BrokenBody, NotJsonBody,
      [GoodBody EXCEPT !.principal = PrincipalBad],
      [GoodBody EXCEPT !.action = ActionOff],
      GoodBody }

AuthorizeStage(i) == AuthorizeFrom(i, StageBodies)

FairNext ==
    \/ Load
    \/ Bind
    \/ \E i \in Slots : Health(i)
    \/ \E i \in Slots : NotFound(i)
    \/ \E i \in Slots : AuthorizeStage(i)
    \/ \E i \in Slots : BodyError(i)
    \/ \E i \in Slots : BodyReady(i)
    \/ \E i \in Slots : Release(i)

FairSpec ==
    /\ Init
    /\ [][FairNext]_vars
    /\ \A i \in Slots : WF_vars(BodyError(i) \/ BodyReady(i))

Answered(c) ==
    /\ c.pc = "done"
    /\ c.responses = 1
    /\ c.resp.status \in {200, 400, 404, 500}

ArtifactsValid ==
    /\ policy_file \notin {"unreadable", "invalid"}
    /\ schema_file # "invalid"

MainEnded == main_pc \in {"serving", "exited", "panicked"}

\* C4 as stated: the service reaches the serving state iff the policy
\* source is readable and parses and the schema, if present, parses.
C4_ServingIffArtifactsValid ==
    MainEnded => (main_pc = "serving" <=> ArtifactsValid)

\* C4: CedarService::new succeeds iff the policy source is readable and
\* parses and the schema, if present, parses; the service reaches the
\* serving state iff moreover the bind address parses and the listener can
\* be bound.  A present-but-invalid schema aborts startup, an absent schema
\* gives schema-less mode, and a request is only ever handled after a
\* successful load.
C4_Startup ==
    /\ load_result # "pending" => (load_result = "ok" <=> ArtifactsValid)
    /\ MainEnded => (main_pc = "serving" <=>
                        /\ ArtifactsValid
                        /\ bind_addr = "0.0.0.0:8181"
                        /\ port_free)
    /\ schema_file = "invalid" => main_pc \notin {"bind", "serving"}
    /\ (load_result = "ok" /\ schema_file = "unreadable") => service.schema = "None"
    /\ (load_result = "ok" /\ schema_file = "valid") => service.schema = "Some"
    /\ \A i \in Slots :
          conn[i].pc # "idle" => (load_result = "ok" /\ service.loaded)

C4_Witness ==
    /\ main_pc = "serving"
    /\ schema_file = "unreadable"
    /\ service.schema = "None"
    /\ \E i \in Slots : conn[i].pc = "done"

\* C5: is_authorized is called exactly once for a POST /authorize request
\* that decodes and builds, and never for a request that fails at the body
\* read, the decode or the build, or that is routed to /health or to 404.
C5_EngineCalls ==
    \A i \in Slots :
        /\ conn[i].pc # "done" => conn[i].engine_calls = 0
        /\ conn[i].pc = "done" =>
              conn[i].engine_calls =
                 IF /\ IsAuthorize(conn[i])
                    /\ Decodable(conn[i].body)
                    /\ FirstInvalid(conn[i].body, service.schema) = "none"
                 THEN 1 ELSE 0

C5_Witness ==
    \E i, j \in Slots :
        /\ conn[i].pc = "done" /\ conn[i].body = GoodBody
        /\ conn[i].engine_calls = 1 /\ conn[i].engine.errors = <<>>
        /\ conn[j].pc = "done" /\ BuildFailed(conn[j])

\* C6: once is_authorized has been called for a request, the response is
\* 200 and carries the engine's decision as "Allow" or "Deny", also when the
\* engine reported evaluation errors; reason and errors are the engine's, in
\* the engine's order.
C6_EngineResultIs200 ==
    \A i \in Slots :
        (conn[i].pc = "done" /\ conn[i].engine_calls > 0) =>
            LET e == conn[i].engine
                d == conn[i].resp.body.authz.diagnostics
            IN  /\ conn[i].resp.status = 200
                /\ conn[i].resp.body.authz.decision \in {"Allow", "Deny"}
                /\ conn[i].resp.body.authz.decision = "Allow"
                      <=> e.decision = "DecisionAllow"
                /\ Len(d.reason) = Len(e.reason)
                /\ \A k \in 1..Len(e.reason) :
                      d.reason[k] = PolicyIdToString(e.reason[k])
                /\ Len(d.errors) = Len(e.errors)
                /\ \A k \in 1..Len(e.errors) :
                      d.errors[k] = ErrorToString(e.errors[k])

C6_Witness ==
    \E i, j \in Slots :
        /\ conn[i].pc = "done" /\ conn[i].engine_calls = 1
        /\ conn[i].engine.errors # <<>>
        /\ conn[i].resp.body.authz.decision = "Allow"
        /\ conn[j].pc = "done" /\ conn[j].engine_calls = 1
        /\ Len(conn[j].engine.reason) = 2

\* The request a handler was given.
Payload(c) == <<c.method, c.path, c.body>>

C8_HealthIs200 ==
    \A i \in Slots :
        (conn[i].pc # "idle" /\ conn[i].method = "GET" /\ conn[i].path = "/health")
        => /\ conn[i].pc = "done"
           /\ conn[i].resp.status = 200
           /\ conn[i].resp.body.text = "{\"status\":\"healthy\"}"
           /\ ~conn[i].body_read
           /\ conn[i].stages = <<>>
           /\ conn[i].engine_calls = 0

C8_Witness ==
    \E i, j \in Slots :
        /\ conn[i].pc = "done" /\ conn[i].method = "GET" /\ conn[i].path = "/health"
        /\ service.policy_set = <<>>
        /\ service.schema = "None"
        /\ conn[j].pc = "reading"

\* C9: a request whose (method, path) is neither (GET, /health) nor
\* (POST, /authorize) is answered 404 with the plain text "Not found" and
\* never reads a body, decodes, builds or calls the engine.
C9_OtherIs404 ==
    \A i \in Slots :
        (/\ conn[i].pc # "idle"
         /\ <<conn[i].method, conn[i].path>> \notin
                {<<"GET", "/health">>, <<"POST", "/authorize">>})
        => /\ conn[i].pc = "done"
           /\ conn[i].resp.status = 404
           /\ conn[i].resp.body.kind = "text"
           /\ conn[i].resp.body.text = "Not found"
           /\ conn[i].resp.content_type = ""
           /\ ~conn[i].body_read
           /\ ~conn[i].decoded
           /\ conn[i].stages = <<>>
           /\ conn[i].engine_calls = 0

C9_Witness ==
    \E i, j \in Slots :
        /\ conn[i].pc = "done" /\ conn[i].method = "PUT" /\ conn[i].path = "/authorize"
        /\ conn[j].pc = "done" /\ conn[j].method = "GET" /\ conn[j].path = "/unknown"

StageOrder == <<"entities", "principal", "action", "resource", "request">>

StageMessage(stage) ==
    CASE stage = "entities"  -> "Failed to parse entities"
      [] stage = "principal" -> "Failed to parse principal"
      [] stage = "action"    -> "Failed to parse action"
      [] stage = "resource"  -> "Failed to parse resource"
      [] stage = "request"   -> "Failed to create request"

\* C10: when the evaluation context cannot be built, the error reported is
\* the one of the first failing stage in the order entities, principal,
\* action, resource, request construction, and the stages evaluated are
\* exactly those up to and including it.
C10_FirstFailureOnly ==
    \A i \in Slots :
        BuildFailed(conn[i]) =>
            LET first == FirstInvalid(conn[i].body, service.schema)
                n == CHOOSE k \in 1..5 : StageOrder[k] = first
            IN  /\ conn[i].resp.body.text = ErrorJson(StageMessage(first))
                /\ conn[i].stages = SubSeq(StageOrder, 1, n)

C10_Witness ==
    \E i, j \in Slots :
        /\ BuildFailed(conn[i])
        /\ conn[i].body = Body("json", PrincipalBad, ActionBad, ResourceBad,
                               EntitiesGarbage)
        /\ BuildFailed(conn[j])
        /\ conn[j].body = Body("json", PrincipalOk, ActionBad, ResourceBad,
                               EntitiesComplete)

====
